---- MODULE Spec2Model ----
(***************************************************************************)
(* State machine of the NetworkingDemo component (src/App.js): an infinite *)
(* query over "posts" (react-query 3.x useInfiniteQuery), a create         *)
(* mutation whose completion refetches the query, and a one-second timer   *)
(* that splices the submitted post into the head of the first page.        *)
(*                                                                         *)
(* JavaScript reference semantics are kept where the code depends on them: *)
(* the first page of the query data is an array object that postList and   *)
(* the query cache share, and the timer callback runs the manualDataSubmit *)
(* closure of the render in which the button was pressed.                  *)
(***************************************************************************)
EXTENDS Integers, Sequences, FiniteSets, TLC

\* ---------------------------------------------------------------- bounds
\* events counted in one run: valid submissions, requests (GET or POST) that
\* fail, and fetches cancelled while their GET is on the wire
MaxEvents == 2

\* ------------------------------------------------------ program constants
\* getNextPageParam: `if (pages.length < 10)`
MaxPages == 10

FetchErrorMsg == "Failed to Fetch data"
PostErrorMsg == "Failed to Post data"
FieldsErrorMsg == "Title and Body must be filled"

\* texts the two input fields can hold
Titles == {"", "T"}
Bodies == {"", "B"}

VARIABLES
    mounted,        \* the NetworkingDemo component is mounted
    title,          \* useState("")
    body,           \* useState("")
    error,          \* useState("")
    fieldsError,    \* useState("")
    customLoading,  \* useState(false)
    postList,       \* useState({}): <<>> is {}, otherwise the pages of a data object
    data,           \* pages of the query data in the cache; <<>> is undefined
    arrs,           \* heap of the first-page array objects, by array id
    fetch,          \* the fetch the query is running
    zombies,        \* per page token, GETs still on the wire whose fetch was cancelled
    posts,          \* POST requests on the wire
    timers,         \* pending setTimeout callbacks, oldest first
    events,         \* submissions, failed requests and cancelled fetches so far
    noMoreData      \* the handler that ran last was a fetchNextPage with no next page param

vars == <<mounted, title, body, error, fieldsError, customLoading, postList,
          data, arrs, fetch, zombies, posts, timers, events, noMoreData>>

\* ------------------------------------------------------------ data model
\* what GET /posts?_limit=10&_page=t answers: the items of page t
ServerItem(t) == [id |-> t, title |-> "srv", body |-> "srv"]
ServerPage(t) == <<ServerItem(t)>>

\* the object literal { title, body } of manualDataSubmit (no id)
LocalItem(t, b) == [id |-> 0, title |-> t, body |-> b]

\* a page that retrievePosts resolved to: the response array, or undefined
\* when the request failed. token is the pageParam the page was fetched with;
\* arr is the id of the array object for the first page, 0 elsewhere.
PageRec(ok, token, arr) == [ok |-> ok, token |-> token, arr |-> arr]

NoFetch == [kind |-> "none", token |-> 0, acc |-> <<>>, total |-> 0]

\* variant of DefaultPageParam: the parameter default is dropped
DefaultPageParam_noDefault(p) == p

\* retrievePosts({ pageParam = 1 }): the page requested for a page param;
\* 0 stands for undefined
DefaultPageParam(p) == IF p = 0 THEN 1 ELSE p

\* variant of getNextPageParam: `<=` in place of `<`
getNextPageParam_offByOne(pages) ==
    IF Len(pages) <= MaxPages THEN Len(pages) + 1 ELSE 0

\* getNextPageParam(_lastPage, pages); 0 stands for undefined
getNextPageParam(pages) ==
    IF Len(pages) < MaxPages THEN Len(pages) + 1 ELSE 0

\* isLoading of useInfiniteQuery: no data yet (isError is never set, since
\* retrievePosts catches every failure)
isLoading == data = <<>>

\* variant of FormVisible: the error view is not rendered
FormVisible_noErrorView == mounted /\ ~isLoading

\* the form and the list are rendered: not the loading view, not the error view
FormVisible == mounted /\ ~isLoading /\ error = ""

\* GETs on the wire for page token t
InFlightGets(t) ==
    zombies[t] + (IF fetch.kind # "none" /\ fetch.token = t THEN 1 ELSE 0)

\* --------------------------------------------------------------- initial
\* after the first render: the query has started its initial fetch
Init ==
    /\ mounted = TRUE
    /\ title = ""
    /\ body = ""
    /\ error = ""
    /\ fieldsError = ""
    /\ customLoading = FALSE
    /\ postList = <<>>
    /\ data = <<>>
    /\ arrs = <<>>
    /\ fetch = [kind |-> "initial", token |-> DefaultPageParam(0), acc |-> <<>>, total |-> 1]
    /\ zombies = [t \in 1..MaxPages |-> 0]
    /\ posts = 0
    /\ timers = <<>>
    /\ events = 0
    /\ noMoreData = FALSE

\* ------------------------------------------------------------ form input
setTitle(t) ==
    /\ FormVisible
    /\ title' = t
    /\ noMoreData' = FALSE
    /\ UNCHANGED <<mounted, body, error, fieldsError, customLoading, postList,
                   data, arrs, fetch, zombies, posts, timers, events>>

setBody(b) ==
    /\ FormVisible
    /\ body' = b
    /\ noMoreData' = FALSE
    /\ UNCHANGED <<mounted, title, error, fieldsError, customLoading, postList,
                   data, arrs, fetch, zombies, posts, timers, events>>

\* variant of validateForm: `&&` in place of `||`
validateForm_and == ~(title = "" /\ body = "")

\* validateForm(): true if no error
validateForm == ~(title = "" \/ body = "")

\* handleSubmit(): onPress of the Post button
handleSubmit ==
    /\ FormVisible
    /\ IF validateForm
       THEN /\ events < MaxEvents
            /\ fieldsError' = ""
            /\ posts' = posts + 1
            /\ title' = ""
            /\ body' = ""
            /\ customLoading' = TRUE
            /\ timers' = Append(timers, [postList |-> postList, title |-> title, body |-> body])
            /\ events' = events + 1
       ELSE /\ fieldsError' = FieldsErrorMsg
            /\ UNCHANGED <<posts, title, body, customLoading, timers, events>>
    /\ noMoreData' = FALSE
    /\ UNCHANGED <<mounted, error, postList, data, arrs, fetch, zombies>>

\* the timer of handleSubmit fires: manualDataSubmit() of the render in which
\* the button was pressed
manualDataSubmit ==
    /\ timers # <<>>
    /\ timers' = Tail(timers)
    /\ LET c == Head(timers) IN
       IF Len(c.postList) > 0 /\ c.postList[1].ok
       THEN /\ arrs' = [arrs EXCEPT ![c.postList[1].arr] = <<LocalItem(c.title, c.body)>> \o @]
            /\ postList' = IF mounted THEN c.postList ELSE postList
            /\ customLoading' = IF mounted THEN FALSE ELSE customLoading
       ELSE \* postData.pages[0].unshift throws a TypeError
            UNCHANGED <<arrs, postList, customLoading>>
    /\ noMoreData' = FALSE
    /\ UNCHANGED <<mounted, title, body, error, fieldsError, data, fetch, zombies,
                   posts, events>>

\* ------------------------------------------------------------- the query
\* fetchNextPage(): onRefresh of the list, called with no guard of its own.
\* The next page param comes from getNextPageParam over the pages held; with
\* none, the fetch resolves with the pages held and retrievePosts is not
\* called. A fetch that is running is cancelled (fetchNextPage of
\* react-query 3.x cancels a running refetch once data is there) and a new
\* one is started; the GET of the cancelled fetch stays on the wire, since
\* retrievePosts passes nothing to axios that could abort it.
fetchNextPage ==
    /\ FormVisible
    /\ IF fetch.kind # "none"
       THEN /\ events < MaxEvents
            /\ events' = events + 1
            /\ zombies' = [zombies EXCEPT ![fetch.token] = @ + 1]
       ELSE UNCHANGED <<zombies, events>>
    /\ LET param == getNextPageParam(data) IN
       /\ fetch' = IF param = 0 THEN NoFetch
                   ELSE [kind |-> "next", token |-> param, acc |-> <<>>, total |-> 1]
       /\ noMoreData' = (param = 0)
    /\ UNCHANGED <<mounted, title, body, error, fieldsError, customLoading, postList,
                   data, arrs, posts, timers>>

\* the data a finished refetch puts in the cache: the pages fetched again,
\* one request per page held, in order. The first-page array object is kept
\* when the response equals its content (structural sharing of the query
\* data) and is a new array otherwise.
RefetchedData(acc) ==
    [i \in 1..Len(acc) |->
        IF i = 1 /\ acc[i].ok
        THEN IF data[1].ok /\ arrs[data[1].arr] = ServerPage(acc[i].token)
             THEN data[1]
             ELSE PageRec(TRUE, acc[i].token, Len(arrs) + 1)
        ELSE acc[i]]

\* the GET of the running fetch completes: retrievePosts returns
\* response.data, or logs, calls setError and returns undefined, which the
\* query stores as a page like any other. useEffect([data]) then copies the
\* new data object into postList. State setters of an unmounted component
\* do nothing.
FetchComplete(ok) ==
    /\ ok \/ events < MaxEvents
    /\ events' = IF ok THEN events ELSE events + 1
    /\ fetch.kind # "none"
    /\ error' = IF ~ok /\ mounted THEN FetchErrorMsg ELSE error
    /\ LET page == PageRec(ok, fetch.token, 0)
           acc == Append(fetch.acc, page)
       IN
       IF fetch.kind = "refetch"
       THEN IF Len(acc) < fetch.total
            THEN /\ fetch' = [fetch EXCEPT !.acc = acc, !.token = getNextPageParam(acc)]
                 /\ UNCHANGED <<data, arrs>>
            ELSE /\ fetch' = NoFetch
                 /\ data' = RefetchedData(acc)
                 /\ arrs' = IF data'[1].ok /\ data'[1].arr = Len(arrs) + 1
                            THEN Append(arrs, ServerPage(data'[1].token))
                            ELSE arrs
       ELSE /\ fetch' = NoFetch
            /\ IF ok /\ data = <<>>
               THEN /\ data' = <<PageRec(TRUE, fetch.token, Len(arrs) + 1)>>
                    /\ arrs' = Append(arrs, ServerPage(fetch.token))
               ELSE /\ data' = Append(data, page)
                    /\ arrs' = arrs
    /\ postList' = IF mounted /\ data' # data THEN data' ELSE postList
    /\ noMoreData' = FALSE
    /\ UNCHANGED <<mounted, title, body, fieldsError, customLoading, zombies,
                   posts, timers>>

\* a GET whose fetch was cancelled completes: retrievePosts still runs to its end
ZombieComplete(t, ok) ==
    /\ ok \/ events < MaxEvents
    /\ events' = IF ok THEN events ELSE events + 1
    /\ zombies[t] > 0
    /\ zombies' = [zombies EXCEPT ![t] = @ - 1]
    /\ error' = IF ~ok /\ mounted THEN FetchErrorMsg ELSE error
    /\ noMoreData' = FALSE
    /\ UNCHANGED <<mounted, title, body, fieldsError, customLoading, postList,
                   data, arrs, fetch, posts, timers>>

\* ----------------------------------------------------------- the mutation
\* variant of PostComplete: onSuccess does not refetch the query
PostComplete_noRefetch(ok) ==
    /\ ok \/ events < MaxEvents
    /\ events' = IF ok THEN events ELSE events + 1
    /\ posts > 0
    /\ posts' = posts - 1
    /\ error' = IF ~ok /\ mounted THEN PostErrorMsg ELSE error
    /\ noMoreData' = FALSE
    /\ UNCHANGED <<mounted, title, body, fieldsError, customLoading, postList,
                   data, arrs, fetch, zombies, timers>>

\* a POST completes: addPosts returns (undefined after a caught failure), so
\* the mutation succeeds either way and onSuccess of useMutation runs
\* queryClient.refetchQueries("posts"), which starts a refetch of every page
\* held unless the query is already fetching
PostComplete(ok) ==
    /\ ok \/ events < MaxEvents
    /\ events' = IF ok THEN events ELSE events + 1
    /\ posts > 0
    /\ posts' = posts - 1
    /\ error' = IF ~ok /\ mounted THEN PostErrorMsg ELSE error
    /\ fetch' = IF fetch.kind = "none"
                THEN [kind |-> "refetch", token |-> DefaultPageParam(0),
                      acc |-> <<>>, total |-> Len(data)]
                ELSE fetch
    /\ noMoreData' = FALSE
    /\ UNCHANGED <<mounted, title, body, fieldsError, customLoading, postList,
                   data, arrs, zombies, timers>>

\* -------------------------------------------------------------- teardown
\* the component unmounts: its state is discarded; the query cache, the
\* requests on the wire and the pending timers are not touched (no cleanup
\* is registered)
Unmount ==
    /\ mounted
    /\ mounted' = FALSE
    /\ title' = ""
    /\ body' = ""
    /\ error' = ""
    /\ fieldsError' = ""
    /\ customLoading' = FALSE
    /\ postList' = <<>>
    /\ noMoreData' = FALSE
    /\ UNCHANGED <<data, arrs, fetch, zombies, posts, timers, events>>

Next ==
    \/ \E t \in Titles : setTitle(t)
    \/ \E b \in Bodies : setBody(b)
    \/ handleSubmit
    \/ manualDataSubmit
    \/ fetchNextPage
    \/ \E ok \in BOOLEAN : FetchComplete(ok)
    \/ \E t \in 1..MaxPages, ok \in BOOLEAN : ZombieComplete(t, ok)
    \/ \E ok \in BOOLEAN : PostComplete(ok)
    \/ Unmount

Spec == Init /\ [][Next]_vars

\* a timer that was set fires: the only scheduling the code relies on
FairSpec == Spec /\ WF_vars(manualDataSubmit)

\* ================================================================ claims

\* C1: in every reachable state the query data, the list state and the pages
\* a refetch has collected hold at most 10 pages.
PageCountBound ==
    /\ Len(data) <= MaxPages
    /\ Len(postList) <= MaxPages
    /\ Len(fetch.acc) <= MaxPages

PageCountBoundWitness ==
    Len(data) = MaxPages /\ Len(postList) = MaxPages

\* C2: the Nth page held was fetched with page token N, the request on the
\* wire is for token 1 on the initial load and for (pages held + 1) <= 10 on a
\* next-page load, and fetchNextPage with 10 pages held starts no request and
\* leaves the pages as they are.
TokensSequential ==
    /\ [](/\ \A i \in 1..Len(data) : data[i].token = i
          /\ \A i \in 1..Len(fetch.acc) : fetch.acc[i].token = i
          /\ fetch.kind = "initial" => fetch.token = 1 /\ data = <<>>
          /\ fetch.kind = "next" => fetch.token = Len(data) + 1 /\ fetch.token <= MaxPages
          /\ fetch.kind = "refetch" => fetch.token = Len(fetch.acc) + 1 /\ fetch.token <= Len(data))
    /\ [][fetchNextPage /\ Len(data) = MaxPages =>
            /\ fetch'.kind = "none"
            /\ noMoreData'
            /\ data' = data
            /\ \A t \in 1..MaxPages : InFlightGets(t)' <= InFlightGets(t)]_vars

TokensSequentialWitness ==
    /\ noMoreData
    /\ fetch.kind = "none"
    /\ Len(data) = MaxPages
    /\ \A i \in 1..Len(data) : data[i].ok /\ data[i].token = i

\* C3: at no point are two GETs for the same page token on the wire.
OneFetchPerToken ==
    \A t \in 1..MaxPages : InFlightGets(t) <= 1

\* C4: a submit with an empty title or an empty body only sets the field
\* error: no POST is issued, no timer is set, no fetch is started and no page
\* is changed.
ValidationBlocksSubmit ==
    [][handleSubmit /\ (title = "" \/ body = "") =>
          /\ fieldsError' = FieldsErrorMsg
          /\ posts' = posts
          /\ timers' = timers
          /\ fetch' = fetch
          /\ zombies' = zombies
          /\ data' = data
          /\ arrs' = arrs
          /\ postList' = postList]_vars

ValidationBlocksSubmitWitness ==
    /\ fieldsError = FieldsErrorMsg
    /\ title = ""
    /\ body = "B"
    /\ posts = 0
    /\ timers = <<>>
    /\ events = 0

\* C5: right after a valid submit returns, the first item of the first page
\* of the list has the submitted title and body.
InsertedOnSubmit ==
    [][handleSubmit /\ validateForm =>
          /\ Len(postList') > 0
          /\ postList'[1].ok
          /\ Head(arrs'[postList'[1].arr]).title = title
          /\ Head(arrs'[postList'[1].arr]).body = body]_vars

\* C6: a failed fetch of page token 1 on the initial load leaves the query
\* data empty and sets the error; a load of the first page that succeeds
\* afterwards leaves one page and no error shown.
InitialErrorRecoverable ==
    /\ [][FetchComplete(FALSE) /\ fetch.kind = "initial" =>
            data' = <<>> /\ error' # ""]_vars
    /\ [][FetchComplete(TRUE) /\ fetch.kind = "refetch" /\ fetch.total = 1 /\ mounted =>
            Len(data') = 1 /\ data'[1].ok /\ error' = ""]_vars

\* C7: a next-page load whose request fails appends nothing: the page count
\* and the next page token are what they were before.
FailedLoadAppendsNothing ==
    [][FetchComplete(FALSE) /\ fetch.kind = "next" =>
          /\ Len(data') = Len(data)
          /\ getNextPageParam(data') = getNextPageParam(data)]_vars

\* C8: once the component is unmounted, nothing writes the pages, the error
\* or the posting flag.
NoWriteAfterTeardown ==
    [][~mounted => UNCHANGED <<data, arrs, postList, error, customLoading>>]_vars

InsertionCompletes ==
    /\ [](\A i \in 1..Len(timers) :
            Len(timers[i].postList) > 0 /\ timers[i].postList[1].ok)
    /\ [][manualDataSubmit =>
            /\ arrs' # arrs
            /\ Head(arrs'[Head(timers).postList[1].arr]) =
                   LocalItem(Head(timers).title, Head(timers).body)
            /\ mounted => ~customLoading']_vars
    /\ (customLoading ~> ~customLoading)

\* the insertion ran after a fetch had replaced the data the callback reads
InsertionCompletesWitness ==
    /\ mounted
    /\ timers = <<>>
    /\ ~customLoading
    /\ postList # data
    /\ Len(postList) > 0
    /\ postList[1].ok
    /\ Head(arrs[postList[1].arr]) = LocalItem("T", "B")

====
